---- MODULE Spec2Model ----
(***************************************************************************)
(* Model of src/app.py: the metrics layer of the Gaming Analytics          *)
(* Dashboard (get_device_users, calculate_metrics, calculate_funnel,       *)
(* ggr_by_country) and the Dash callback update_dashboard that recomputes  *)
(* all reports for a device selector value.                                *)
(*                                                                         *)
(* Tables are sequences of rows (pandas DataFrames keep row order).        *)
(* Dates are day ordinals, so  d - pd.Timedelta(days=k)  is  d - k.        *)
(* NaN is the missing value a left merge puts in `country`.                *)
(***************************************************************************)
EXTENDS Integers, Sequences, FiniteSets, TLC

\* ------------------------------------------------------------------ bounds
NumUsers == 2
MaxSessions == 2
MaxTransactions == 2
MaxBets == 2

\* ------------------------------------------------------- program constants
WauDays == 6
MauDays == 29

\* ------------------------------------------------------------ value domains
UserIds == 1..NumUsers
DeviceTypes == {"mobile", "desktop", "tablet"}
DeviceValues == {"all", "mobile", "desktop", "tablet"}
DropdownValues == {"all", "mobile", "desktop"}
Dates == {0, 6, 7, 36}
TransactionTypes == {"deposit", "withdrawal"}
BetAmounts == {1, 2}
NaN == "NaN"
None == "None"
\* country codes in the lexicographic order groupby sorts its keys in
CountryOrder == <<"UA", "XX">>
CountryCodes == {CountryOrder[i] : i \in DOMAIN CountryOrder}

VARIABLES sessions, transactions, bets, users,
          device, metrics_df, funnel, ggr_country_df, bar_df,
          recomputed, loaded

tables == <<sessions, transactions, bets, users>>
results == <<metrics_df, funnel, ggr_country_df, bar_df>>
vars == <<sessions, transactions, bets, users,
          device, metrics_df, funnel, ggr_country_df, bar_df,
          recomputed, loaded>>

\* ------------------------------------------------------------ list helpers
SeqsUpTo(S, n) == UNION {[1..k -> S] : k \in 0..n}

Column(df, col) == [i \in DOMAIN df |-> df[i][col]]

Range(s) == {s[i] : i \in DOMAIN s}

\* Series.nunique(): number of distinct values
nunique(s) == Cardinality(Range(s))

\* Series.unique(): distinct values in order of first appearance
RECURSIVE unique(_)
unique(s) ==
    IF s = <<>> THEN <<>>
    ELSE LET init == unique(SubSeq(s, 1, Len(s) - 1))
             last == s[Len(s)]
         IN IF last \in Range(init) THEN init ELSE Append(init, last)

RECURSIVE insert(_, _)
insert(s, x) ==
    IF s = <<>> THEN <<x>>
    ELSE IF x < s[Len(s)]
         THEN Append(insert(SubSeq(s, 1, Len(s) - 1), x), s[Len(s)])
         ELSE Append(s, x)

\* sorted(iterable): ascending list
RECURSIVE sorted(_)
sorted(s) ==
    IF s = <<>> THEN <<>>
    ELSE insert(sorted(SubSeq(s, 1, Len(s) - 1)), s[Len(s)])

\* ---------------------------------------------- 3. device segmentation
\* the desktop branch pasted from the mobile one without changing the literal
get_device_users_pasted(dev) ==
    LET of_type(t) == Range(Column(SelectSeq(sessions, LAMBDA r : r.device_type = t), "user_id"))
    IN IF dev = "mobile" THEN of_type("mobile")
       ELSE IF dev = "desktop" THEN of_type("mobile")
       ELSE IF dev = "all" THEN of_type("mobile") \cup of_type("mobile")
       ELSE {}

RECURSIVE get_device_users(_)
get_device_users(dev) ==
    IF dev = "mobile"
    THEN Range(Column(SelectSeq(sessions, LAMBDA r : r.device_type = "mobile"), "user_id"))
    ELSE IF dev = "desktop"
    THEN Range(Column(SelectSeq(sessions, LAMBDA r : r.device_type = "desktop"), "user_id"))
    ELSE IF dev = "all"
    THEN LET mobile_users == get_device_users("mobile")
             desktop_users == get_device_users("desktop")
         IN mobile_users \cup desktop_users
    ELSE {}

\* ---------------------------------------------------- 4. DAU / WAU / MAU
filtered_sessions(dev) ==
    IF dev = "all"
    THEN LET dev_users == get_device_users("all")
         IN SelectSeq(sessions, LAMBDA r : r.user_id \in dev_users)
    ELSE SelectSeq(sessions, LAMBDA r : r.device_type = dev)

\* groupby("date")["user_id"].nunique().reset_index(name="DAU"):
\* one row per group key, keys sorted ascending
groupby_date_nunique(fs) ==
    LET keys == sorted(unique(Column(fs, "date")))
    IN [i \in DOMAIN keys |->
          [date |-> keys[i],
           DAU |-> nunique(Column(SelectSeq(fs, LAMBDA r : r.date = keys[i]), "user_id"))]]

\* the window with  date < d  for  date <= d
window_nunique_before_day(fs, d, days) ==
    nunique(Column(SelectSeq(fs, LAMBDA r : r.date >= d - days /\ r.date < d), "user_id"))

\* the window with  date > d - days  for  date >= d - days
window_nunique_open_start(fs, d, days) ==
    nunique(Column(SelectSeq(fs, LAMBDA r : r.date > d - days /\ r.date <= d), "user_id"))

\* the distinct users of the rows with  d - days <= date <= d
window_nunique(fs, d, days) ==
    nunique(Column(SelectSeq(fs, LAMBDA r : r.date >= d - days /\ r.date <= d), "user_id"))

\* the dates without the sorted(): in order of first appearance
metrics_dates_unsorted(fs) == unique(Column(fs, "date"))

metrics_dates(fs) == sorted(unique(Column(fs, "date")))

calculate_metrics(dev) ==
    LET fs == filtered_sessions(dev)
        dau == groupby_date_nunique(fs)
        dates == metrics_dates(fs)
        wau == [i \in DOMAIN dates |-> window_nunique(fs, dates[i], WauDays)]
        mau == [i \in DOMAIN dates |-> window_nunique(fs, dates[i], MauDays)]
    IN [i \in DOMAIN dau |->
          [date |-> dau[i].date, DAU |-> dau[i].DAU, WAU |-> wau[i], MAU |-> mau[i]]]

\* ------------------------------------------------------------- 5. funnel
\* bet_users taken among the segment instead of among the depositors
calculate_funnel_all_bettors(dev) ==
    LET registrations_users == get_device_users(dev)
        deposit_users ==
            Range(Column(SelectSeq(transactions,
                                   LAMBDA r : r.transaction_type = "deposit"
                                              /\ r.user_id \in registrations_users),
                         "user_id"))
        bet_users ==
            Range(Column(SelectSeq(bets, LAMBDA r : r.user_id \in registrations_users),
                         "user_id"))
    IN <<Cardinality(registrations_users), Cardinality(deposit_users),
         Cardinality(bet_users)>>

\* the transaction_type == "deposit" test left out
calculate_funnel_any_transaction(dev) ==
    LET registrations_users == get_device_users(dev)
        deposit_users ==
            Range(Column(SelectSeq(transactions,
                                   LAMBDA r : r.user_id \in registrations_users),
                         "user_id"))
        bet_users ==
            Range(Column(SelectSeq(bets, LAMBDA r : r.user_id \in deposit_users),
                         "user_id"))
    IN <<Cardinality(registrations_users), Cardinality(deposit_users),
         Cardinality(bet_users)>>

calculate_funnel(dev) ==
    LET registrations_users == get_device_users(dev)
        deposit_users ==
            Range(Column(SelectSeq(transactions,
                                   LAMBDA r : r.transaction_type = "deposit"
                                              /\ r.user_id \in registrations_users),
                         "user_id"))
        bet_users ==
            Range(Column(SelectSeq(bets, LAMBDA r : r.user_id \in deposit_users),
                         "user_id"))
    IN <<Cardinality(registrations_users), Cardinality(deposit_users),
         Cardinality(bet_users)>>

\* ----------------------------------------------------- 6. GGR by country
RECURSIVE SumSeq(_)
SumSeq(s) == IF s = <<>> THEN 0 ELSE SumSeq(SubSeq(s, 1, Len(s) - 1)) + s[Len(s)]

\* left.merge(users, on="user_id", how="left"): every left row once per
\* matching users row, or once with a missing country when none matches
RECURSIVE merge_left(_)
merge_left(left) ==
    IF left = <<>> THEN <<>>
    ELSE LET row == left[Len(left)]
             matches == SelectSeq(users, LAMBDA u : u.user_id = row.user_id)
             joined ==
                 IF matches = <<>>
                 THEN <<[user_id |-> row.user_id, bet_amount |-> row.bet_amount,
                         country |-> NaN]>>
                 ELSE [j \in DOMAIN matches |->
                         [user_id |-> row.user_id, bet_amount |-> row.bet_amount,
                          country |-> matches[j].country]]
         IN merge_left(SubSeq(left, 1, Len(left) - 1)) \o joined

\* the group keys of groupby("country"): dropna=True leaves missing keys out
\* and sort=True orders the rest
groupby_country_keys(df) ==
    LET present == Range(Column(df, "country")) \ {NaN}
    IN SelectSeq(CountryOrder, LAMBDA c : c \in present)

\* groupby("country")["bet_amount"].sum().reset_index(name="GGR")
groupby_country_sum(df) ==
    LET keys == groupby_country_keys(df)
    IN [i \in DOMAIN keys |->
          [country |-> keys[i],
           GGR |-> SumSeq(Column(SelectSeq(df, LAMBDA r : r.country = keys[i]),
                                 "bet_amount"))]]

\* pycountry.countries.get(alpha_2=code).name; an unknown code makes get
\* return None, the attribute access raises and the except returns the code
pycountry_names == [UA |-> "Ukraine"]

country_name(code) ==
    IF code \in DOMAIN pycountry_names THEN pycountry_names[code] ELSE code

\* the bets without the isin(dev_users) filter
filtered_bets_all(dev) == bets

filtered_bets(dev) ==
    LET dev_users == IF dev = "all" THEN get_device_users("all")
                     ELSE get_device_users(dev)
    IN SelectSeq(bets, LAMBDA r : r.user_id \in dev_users)

ggr_country_codes(dev) == groupby_country_sum(merge_left(filtered_bets(dev)))

ggr_by_country(dev) ==
    LET ggr_country == ggr_country_codes(dev)
    IN [i \in DOMAIN ggr_country |->
          [country |-> country_name(ggr_country[i].country),
           GGR |-> ggr_country[i].GGR]]

\* sort_values("GGR", ascending=False)
RECURSIVE sort_values_desc(_)
sort_values_desc(df) ==
    IF df = <<>> THEN <<>>
    ELSE LET rest == sort_values_desc(SubSeq(df, 1, Len(df) - 1))
             row == df[Len(df)]
             before == SelectSeq(rest, LAMBDA r : r.GGR >= row.GGR)
             after == SelectSeq(rest, LAMBDA r : r.GGR < row.GGR)
         IN before \o <<row>> \o after

\* ------------------------------------------------------------ 7. Dash app
\* calculate_metrics keeping its filtered frame in the global `sessions`
update_dashboard_narrowing(dev) ==
    /\ metrics_df' = calculate_metrics(dev)
    /\ funnel' = calculate_funnel(dev)
    /\ ggr_country_df' = ggr_by_country(dev)
    /\ bar_df' = sort_values_desc(ggr_by_country(dev))
    /\ device' = dev
    /\ recomputed' = (device # None)
    /\ sessions' = filtered_sessions(dev)
    /\ UNCHANGED <<transactions, bets, users, loaded>>

\* the callback: recompute every report for the selected device; the
\* functions build new frames and assign to no table
update_dashboard(dev) ==
    /\ metrics_df' = calculate_metrics(dev)
    /\ funnel' = calculate_funnel(dev)
    /\ ggr_country_df' = ggr_by_country(dev)
    /\ bar_df' = sort_values_desc(ggr_by_country(dev))
    /\ device' = dev
    /\ recomputed' = (device # None)
    /\ UNCHANGED <<sessions, transactions, bets, users, loaded>>

\* --------------------------------------------------------- loaded tables
SessionRows(dates) ==
    [user_id : UserIds, device_type : DeviceTypes, date : dates]

TransactionRows == [user_id : UserIds, transaction_type : TransactionTypes]

BetRows == [user_id : UserIds, bet_amount : BetAmounts]

\* users.csv holds at most one record per user_id
RECURSIVE UsersTables(_)
UsersTables(n) ==
    IF n = 0 THEN {<<>>}
    ELSE LET prev == UsersTables(n - 1)
         IN prev \cup {Append(t, [user_id |-> n, country |-> c]) :
                          t \in prev, c \in CountryCodes}

SegRow(u, t) == [user_id |-> u, device_type |-> t, date |-> 0]

\* session tables giving the segments the funnel and the revenue report need:
\* none, one mobile user, a mobile and a desktop user, a user on both devices
\* next to a tablet-only user, a user with two sessions on one device
SegmentTables ==
    { <<>>,
      <<SegRow(1, "mobile")>>,
      <<SegRow(1, "mobile"), SegRow(2, "desktop")>>,
      <<SegRow(1, "mobile"), SegRow(2, "tablet"), SegRow(1, "desktop")>>,
      <<SegRow(2, "desktop"), SegRow(2, "desktop")>> }

\* seven consecutive days, a new user on each
WeekExample == [i \in 1..7 |-> [user_id |-> i, device_type |-> "mobile", date |-> i]]

\* three users 29, 6 and 0 days before the last day
MonthExample ==
    << [user_id |-> 1, device_type |-> "mobile", date |-> 7],
       [user_id |-> 2, device_type |-> "mobile", date |-> 30],
       [user_id |-> 3, device_type |-> "mobile", date |-> 36] >>

NoReports ==
    /\ device = None
    /\ metrics_df = <<>>
    /\ funnel = <<>>
    /\ ggr_country_df = <<>>
    /\ bar_df = <<>>
    /\ recomputed = FALSE
    /\ loaded = <<sessions, transactions, bets, users>>

\* tables that exercise the activity metrics
InitMetrics ==
    /\ sessions \in SeqsUpTo(SessionRows(Dates), MaxSessions) \cup {WeekExample, MonthExample}
    /\ transactions = <<[user_id |-> 1, transaction_type |-> "deposit"]>>
    /\ bets = <<[user_id |-> 1, bet_amount |-> 1]>>
    /\ users = <<[user_id |-> 1, country |-> "UA"]>>
    /\ NoReports

\* tables that exercise the funnel
InitFunnel ==
    /\ sessions \in SegmentTables
    /\ transactions \in SeqsUpTo(TransactionRows, MaxTransactions)
    /\ bets \in SeqsUpTo([user_id : UserIds, bet_amount : {1}], MaxBets)
    /\ users = <<>>
    /\ NoReports

\* tables that exercise the revenue report
InitGgr ==
    /\ sessions \in SegmentTables
    /\ transactions = <<>>
    /\ bets \in SeqsUpTo(BetRows, MaxBets)
    /\ users \in UsersTables(NumUsers)
    /\ NoReports

\* every table varies a little
Init ==
    /\ sessions \in SegmentTables
    /\ transactions \in SeqsUpTo(TransactionRows, 1)
    /\ bets \in SeqsUpTo(BetRows, 1)
    /\ users \in UsersTables(NumUsers)
    /\ NoReports

Next == \E dev \in DeviceValues : update_dashboard(dev)

Spec == Init /\ [][Next]_vars

SpecMetrics == InitMetrics /\ [][Next]_vars

SpecFunnel == InitFunnel /\ [][Next]_vars

SpecGgr == InitGgr /\ [][Next]_vars

\* ================================================================ claims
\* what the specification calls the device segment, the filtered session
\* set and the users active in a window, stated over the loaded tables

SegmentDeviceTypes(dev) ==
    IF dev = "all" THEN {"mobile", "desktop"}
    ELSE IF dev \in {"mobile", "desktop"} THEN {dev}
    ELSE {}

SegmentOf(dev) ==
    {sessions[i].user_id :
        i \in {j \in DOMAIN sessions : sessions[j].device_type \in SegmentDeviceTypes(dev)}}

InFilter(dev, r) ==
    IF dev = "all" THEN r.user_id \in SegmentOf("all") ELSE r.device_type = dev

FilteredDates(dev) ==
    {sessions[i].date : i \in {j \in DOMAIN sessions : InFilter(dev, sessions[j])}}

ActiveUsers(dev, lo, hi) ==
    {sessions[i].user_id :
        i \in {j \in DOMAIN sessions :
                  InFilter(dev, sessions[j]) /\ sessions[j].date \in lo..hi}}

Depositors(dev) ==
    {u \in SegmentOf(dev) :
        \E i \in DOMAIN transactions :
            transactions[i].user_id = u /\ transactions[i].transaction_type = "deposit"}

Bettors == {bets[i].user_id : i \in DOMAIN bets}

HasUserRecord(u) == \E j \in DOMAIN users : users[j].user_id = u

UserCountry(u) ==
    IF HasUserRecord(u)
    THEN users[CHOOSE j \in DOMAIN users : users[j].user_id = u].country
    ELSE NaN

QualifyingBets(dev) == {i \in DOMAIN bets : bets[i].user_id \in SegmentOf(dev)}

RECURSIVE BetTotal(_)
BetTotal(I) ==
    IF I = {} THEN 0
    ELSE LET i == CHOOSE x \in I : TRUE
         IN bets[i].bet_amount + BetTotal(I \ {i})

\* C1: for every device value and every content of the tables the funnel
\* counts satisfy registrations_count >= deposit_count >= bet_count.
C1_FunnelMonotonic ==
    device # None => funnel[1] >= funnel[2] /\ funnel[2] >= funnel[3]

C1_Witness ==
    /\ device # None
    /\ funnel[1] > funnel[2]
    /\ funnel[2] > funnel[3]
    /\ \E i \in DOMAIN bets : bets[i].user_id \in SegmentOf(device) \ Depositors(device)

\* C2 (as claimed): a bet of a segment user with no record in users shows up
\* in the result of ggr_by_country under a missing-country row.
C2_AbsentUserKept ==
    device # None =>
        \A i \in QualifyingBets(device) :
            ~HasUserRecord(bets[i].user_id) =>
                \E k \in DOMAIN ggr_country_df :
                    /\ ggr_country_df[k].country = NaN
                    /\ ggr_country_df[k].GGR >= bets[i].bet_amount

\* C3 (as claimed): for a device string other than mobile, desktop and all,
\* whatever the sessions table holds, the segment is empty, the activity
\* table has no rows and the funnel is (0, 0, 0).
C3_UnknownDeviceEmpty ==
    (device # None /\ device \notin DropdownValues) =>
        /\ get_device_users(device) = {}
        /\ metrics_df = <<>>
        /\ funnel = <<0, 0, 0>>

\* C4: on every row of the activity table DAU <= WAU <= MAU.
C4_DauWauMau ==
    device # None =>
        \A i \in DOMAIN metrics_df :
            metrics_df[i].DAU <= metrics_df[i].WAU /\ metrics_df[i].WAU <= metrics_df[i].MAU

C4_Witness ==
    /\ device # None
    /\ \E i \in DOMAIN metrics_df :
          metrics_df[i].DAU < metrics_df[i].WAU /\ metrics_df[i].WAU < metrics_df[i].MAU

\* C5: on the row of date d, DAU, WAU and MAU are the numbers of distinct
\* users of filtered sessions dated d, in [d-6, d] and in [d-29, d], both
\* ends included; seven consecutive days with a new user each give WAU = 7
\* and DAU = 1 on the seventh day.
C5_ClosedWindows ==
    device # None =>
        /\ \A i \in DOMAIN metrics_df :
              LET d == metrics_df[i].date
              IN /\ metrics_df[i].DAU = Cardinality(ActiveUsers(device, d, d))
                 /\ metrics_df[i].WAU = Cardinality(ActiveUsers(device, d - 6, d))
                 /\ metrics_df[i].MAU = Cardinality(ActiveUsers(device, d - 29, d))
        /\ (sessions = WeekExample /\ device \in {"mobile", "all"}) =>
              /\ Len(metrics_df) = 7
              /\ metrics_df[7] = [date |-> 7, DAU |-> 1, WAU |-> 7, MAU |-> 7]

C5_Witness ==
    /\ device # None
    /\ \E i, j \in DOMAIN metrics_df :
          /\ metrics_df[j].date - metrics_df[i].date = 6
          /\ metrics_df[j].DAU = 1
          /\ metrics_df[j].WAU = 2

\* C6: for mobile and desktop the users of the sessions calculate_metrics
\* aggregates are get_device_users(device), registrations_count is their
\* number, and no DAU, WAU or MAU exceeds it.
C6_FilterAgreesWithSegment ==
    device \in {"mobile", "desktop"} =>
        /\ Range(Column(filtered_sessions(device), "user_id")) = get_device_users(device)
        /\ funnel[1] = Cardinality(Range(Column(filtered_sessions(device), "user_id")))
        /\ \A i \in DOMAIN metrics_df :
              /\ metrics_df[i].DAU <= funnel[1]
              /\ metrics_df[i].WAU <= funnel[1]
              /\ metrics_df[i].MAU <= funnel[1]

C6_Witness ==
    /\ device = "desktop"
    /\ funnel[1] = 1
    /\ metrics_df # <<>>
    /\ \E i \in DOMAIN sessions : sessions[i].device_type = "mobile"

\* C7: the activity table has exactly one row per date with a filtered
\* session, in strictly ascending date order, and the WAU and MAU on a row
\* are those of the row's own date, whatever order the sessions are stored in.
C7_RowsPerDateAligned ==
    device # None =>
        /\ {metrics_df[i].date : i \in DOMAIN metrics_df} = FilteredDates(device)
        /\ Len(metrics_df) = Cardinality(FilteredDates(device))
        /\ \A i, j \in DOMAIN metrics_df : i < j => metrics_df[i].date < metrics_df[j].date
        /\ \A i \in DOMAIN metrics_df :
              LET d == metrics_df[i].date
              IN /\ metrics_df[i].WAU = Cardinality(ActiveUsers(device, d - 6, d))
                 /\ metrics_df[i].MAU = Cardinality(ActiveUsers(device, d - 29, d))

C7_Witness ==
    /\ device # None
    /\ Len(metrics_df) >= 2
    /\ metrics_df[1].WAU # metrics_df[2].WAU
    /\ \E i, j \in DOMAIN sessions :
          /\ i < j
          /\ sessions[i].date > sessions[j].date
          /\ InFilter(device, sessions[i])
          /\ InFilter(device, sessions[j])

\* C8: the revenue table has one row per country code among the bets of
\* segment users, carrying the sum of exactly those bets' amounts; bets of
\* users outside the segment count nowhere and no other row exists.
C8_GgrPerCountry ==
    device # None =>
        LET codes == {UserCountry(bets[i].user_id) : i \in QualifyingBets(device)} \ {NaN}
        IN /\ Len(ggr_country_df) = Cardinality(codes)
           /\ \A c \in codes :
                 \E k \in DOMAIN ggr_country_df :
                     /\ ggr_country_df[k].country = country_name(c)
                     /\ ggr_country_df[k].GGR =
                           BetTotal({i \in QualifyingBets(device) :
                                        UserCountry(bets[i].user_id) = c})

C8_Witness ==
    /\ device # None
    /\ ggr_country_df # <<>>
    /\ \E i \in DOMAIN bets :
          /\ bets[i].user_id \notin SegmentOf(device)
          /\ HasUserRecord(bets[i].user_id)

\* C9: deposit_count is the number of segment users with a transaction of
\* type deposit, bet_count the number of those depositors with a bet.
C9_FunnelCounts ==
    device # None =>
        /\ funnel[2] = Cardinality(Depositors(device))
        /\ funnel[3] = Cardinality(Depositors(device) \cap Bettors)

C9_Witness ==
    /\ device # None
    /\ funnel[2] >= 1
    /\ \E u \in SegmentOf(device) \ Depositors(device) :
          /\ u \in Bettors
          /\ \E i \in DOMAIN transactions : transactions[i].user_id = u

\* C10: update_dashboard leaves the four tables as loaded, and the reports
\* on display are those of the selected device value alone, whatever calls
\* came before.
C10_ReadOnlyRecompute ==
    /\ <<sessions, transactions, bets, users>> = loaded
    /\ device # None =>
          /\ metrics_df = calculate_metrics(device)
          /\ funnel = calculate_funnel(device)
          /\ ggr_country_df = ggr_by_country(device)

C10_Witness ==
    /\ recomputed
    /\ device = "mobile"
    /\ metrics_df # <<>>
    /\ ggr_country_df # <<>>
    /\ funnel[2] >= 1

====
